---- MODULE Spec2Model ----
(***************************************************************************)
(* A model of dice-typescript: the recursive-descent DiceParser and the    *)
(* tree-mutating DiceInterpreter.                                          *)
(*                                                                         *)
(* The AST lives in a heap of nodes addressed by identity, so that         *)
(* aliasing, copying and in-place mutation are observable.  A JavaScript   *)
(* value is a record of one shape (kind k, numerator n, denominator d,     *)
(* string s): numbers are exact rationals plus NaN and the two infinities. *)
(* Signed zero and floating-point rounding error are not modelled; the     *)
(* string-concatenating case of + and fractional exponents are outside the *)
(* inputs the model enumerates.                                            *)
(***************************************************************************)
EXTENDS Integers, Sequences, FiniteSets, TLC

(***************************************************************************)
(* Bounds of the model.                                                    *)
(***************************************************************************)
MaxFace == 3
MaxCycle == 2
MaxCount == 3
MaxInterprets == 2
MaxEvaluates == 1

\* Direct calls of parser methods on one token stream, and interpreters
\* constructed, in one behaviour.
MaxParses == 2
MaxInterpreters == 2

(***************************************************************************)
(* JavaScript values.                                                      *)
(***************************************************************************)
Abs(i) == IF i < 0 THEN -i ELSE i

RECURSIVE GCD(_, _)
GCD(a, b) == IF b = 0 THEN a ELSE GCD(b, a % b)

Undefined == [k |-> "undef", n |-> 0, d |-> 1, s |-> ""]
NaN == [k |-> "nan", n |-> 0, d |-> 1, s |-> ""]
PosInf == [k |-> "inf", n |-> 1, d |-> 1, s |-> ""]
NegInf == [k |-> "inf", n |-> -1, d |-> 1, s |-> ""]
Str(x) == [k |-> "str", n |-> 0, d |-> 1, s |-> x]

\* The rational a/b (b # 0) in lowest terms with a positive denominator.
Rat(a, b) ==
    LET g == GCD(Abs(a), Abs(b))
        sg == IF b < 0 THEN -1 ELSE 1
    IN  [k |-> "num", n |-> sg * (a \div g), d |-> Abs(b) \div g, s |-> ""]

Num(i) == [k |-> "num", n |-> i, d |-> 1, s |-> ""]

IsNum(v) == v.k = "num"
IsInt(v) == v.k = "num" /\ v.d = 1
Sign(v) == IF v.n > 0 THEN 1 ELSE IF v.n < 0 THEN -1 ELSE 0
Inf(sg) == IF sg < 0 THEN NegInf ELSE PosInf

\* ToNumber: undefined and a non-numeric string such as "fate" become NaN.
ToNumber(v) == IF v.k \in {"undef", "str"} THEN NaN ELSE v

\* ToBoolean: undefined, 0, NaN and "" are falsy.
Truthy(v) ==
    CASE v.k = "undef" -> FALSE
      [] v.k = "nan" -> FALSE
      [] v.k = "num" -> v.n # 0
      [] v.k = "inf" -> TRUE
      [] OTHER -> v.s # ""

JsNeg(x) ==
    LET a == ToNumber(x)
    IN  CASE a.k = "nan" -> NaN
          [] a.k = "inf" -> Inf(-a.n)
          [] OTHER -> Rat(-a.n, a.d)

JsAdd(x, y) ==
    LET a == ToNumber(x)
        b == ToNumber(y)
    IN  CASE a.k = "nan" \/ b.k = "nan" -> NaN
          [] a.k = "inf" /\ b.k = "inf" -> IF a.n = b.n THEN a ELSE NaN
          [] a.k = "inf" -> a
          [] b.k = "inf" -> b
          [] OTHER -> Rat(a.n * b.d + b.n * a.d, a.d * b.d)

JsSub(x, y) == JsAdd(x, JsNeg(y))

JsMul(x, y) ==
    LET a == ToNumber(x)
        b == ToNumber(y)
    IN  CASE a.k = "nan" \/ b.k = "nan" -> NaN
          [] a.k = "inf" \/ b.k = "inf" ->
                IF Sign(a) * Sign(b) = 0 THEN NaN ELSE Inf(Sign(a) * Sign(b))
          [] OTHER -> Rat(a.n * b.n, a.d * b.d)

JsDiv(x, y) ==
    LET a == ToNumber(x)
        b == ToNumber(y)
    IN  CASE a.k = "nan" \/ b.k = "nan" -> NaN
          [] a.k = "inf" /\ b.k = "inf" -> NaN
          [] a.k = "inf" -> Inf(IF Sign(b) < 0 THEN -a.n ELSE a.n)
          [] b.k = "inf" -> Num(0)
          [] b.n = 0 -> IF a.n = 0 THEN NaN ELSE Inf(Sign(a))
          [] OTHER -> Rat(a.n * b.d, a.d * b.n)

\* Truncation toward zero of the rational p/q, q > 0.
Trunc(p, q) == IF p >= 0 THEN p \div q ELSE -((-p) \div q)

\* The remainder has the sign of the dividend.
JsMod(x, y) ==
    LET a == ToNumber(x)
        b == ToNumber(y)
    IN  CASE a.k = "nan" \/ b.k = "nan" -> NaN
          [] a.k = "inf" -> NaN
          [] b.k = "inf" -> a
          [] b.n = 0 -> NaN
          [] OTHER ->
                LET q == Trunc(a.n * b.d * Sign(b), a.d * Abs(b.n))
                IN  JsSub(a, JsMul(b, Num(q)))

RECURSIVE IntPow(_, _)
IntPow(b, e) == IF e = 0 THEN 1 ELSE b * IntPow(b, e - 1)

\* Math.pow for an integer exponent (or a non-finite operand).
MathPow(x, y) ==
    LET a == ToNumber(x)
        b == ToNumber(y)
    IN  CASE b.k = "num" /\ b.n = 0 -> Num(1)
          [] a.k = "nan" \/ b.k = "nan" -> NaN
          [] b.k = "inf" ->
                IF a.k = "inf" THEN (IF b.n > 0 THEN PosInf ELSE Num(0))
                ELSE IF Abs(a.n) = a.d THEN NaN
                ELSE IF (Abs(a.n) > a.d) = (b.n > 0) THEN PosInf ELSE Num(0)
          [] a.k = "inf" ->
                IF b.n < 0 THEN Num(0)
                ELSE IF a.n < 0 /\ b.d = 1 /\ b.n % 2 = 1 THEN NegInf ELSE PosInf
          [] b.n > 0 -> Rat(IntPow(a.n, b.n), IntPow(a.d, b.n))
          [] a.n = 0 -> PosInf
          [] OTHER -> Rat(IntPow(a.d, -b.n), IntPow(a.n, -b.n))

\* Math.round: the nearest integer, a tie going to the larger one.
\* Math.floor, which a count of 2.5 tells from Math.round.
MathFloor(x) ==
    LET a == ToNumber(x)
    IN  IF a.k = "num" THEN Num(a.n \div a.d) ELSE a

\* The nearest integer, the lower one of two equally near.
MathRoundHalfDown(x) ==
    LET a == ToNumber(x)
    IN  IF a.k = "num" THEN Num(-((a.d - 2 * a.n) \div (2 * a.d))) ELSE a

\* Math.abs, Math.ceil
MathAbs(x) ==
    LET a == ToNumber(x)
    IN  CASE a.k = "num" -> Rat(Abs(a.n), a.d)
          [] a.k = "inf" -> PosInf
          [] OTHER -> a

MathCeil(x) ==
    LET a == ToNumber(x)
    IN  IF a.k = "num" THEN Num(-((-a.n) \div a.d)) ELSE a

\* Math.sqrt: the root of a square of a rational; the root of another
\* positive number is kept as the root it is.
MathSqrt(x) ==
    LET a == ToNumber(x)
    IN  CASE a.k = "num" /\ a.n < 0 -> NaN
          [] a.k = "num" /\ (\E r \in 0..a.n, q \in 1..a.d : r * r = a.n /\ q * q = a.d) ->
                LET r == CHOOSE r \in 0..a.n : r * r = a.n
                    q == CHOOSE q \in 1..a.d : q * q = a.d
                IN  Rat(r, q)
          [] a.k = "num" -> [k |-> "sqrt", n |-> a.n, d |-> a.d, s |-> ""]
          [] a.k = "inf" /\ a.n < 0 -> NaN
          [] OTHER -> a

\* Math.round: the nearest integer, the upper one of two equally near.
MathRound(x) ==
    LET a == ToNumber(x)
    IN  IF a.k = "num" THEN Num((2 * a.n + a.d) \div (2 * a.d)) ELSE a

\* The relational operators; every comparison with NaN is false.
JsLess(x, y) ==
    LET a == ToNumber(x)
        b == ToNumber(y)
    IN  CASE a.k = "nan" \/ b.k = "nan" -> FALSE
          [] a.k = "inf" /\ b.k = "inf" -> a.n < b.n
          [] a.k = "inf" -> a.n < 0
          [] b.k = "inf" -> b.n > 0
          [] OTHER -> a.n * b.d < b.n * a.d

\* Strict equality; NaN equals nothing.
JsStrictEq(x, y) == x.k # "nan" /\ x = y

\* The decimal numerals of the numbers 0..10: the text of a number in a
\* token and in a message.
Numerals == <<"0", "1", "2", "3", "4", "5", "6", "7", "8", "9", "10">>

\* Math[name](x) for the names of the default functions.
MathFunction(name, x) ==
    CASE name = "abs" -> MathAbs(x)
      [] name = "ceil" -> MathCeil(x)
      [] name = "floor" -> MathFloor(x)
      [] name = "round" -> MathRound(x)
      [] name = "sqrt" -> MathSqrt(x)

\* A function table is an object: a map from the names it has as keys to
\* definitions.  A definition evaluates child 0 of the function node and
\* applies a Math function to it; it is written as that function's name.
MathFunctions == {"abs", "ceil", "floor", "round", "sqrt"}

\* The keys and values DefaultFunctionDefinitions is created with.
DefaultFunctions == [name \in MathFunctions |-> name]

\* A call without the functions argument.
NoFunctions == [name \in {} |-> ""]

\* Object.assign(target, source): the keys of source are set on target.
ObjectAssign(target, source) ==
    [name \in (DOMAIN target) \cup (DOMAIN source) |->
        IF name \in DOMAIN source THEN source[name] ELSE target[name]]

(***************************************************************************)
(* The state.                                                              *)
(*   heap      the AST nodes ever created, addressed by identity 1..Len    *)
(*   input     the token stream the parser was given (empty: none)         *)
(*   ast       the expression tree held by the caller (0: none yet)        *)
(*   random    the RandomProvider the interpreter was constructed with: it *)
(*             returns these values in turn, over and over                 *)
(*   rpos      how many numbers the provider has handed out                *)
(*   config    the limits configuration the caller supplied                *)
(*   results   the outcome of every interpret call so far                  *)
(*   evals     the outcome of every direct evaluate call so far            *)
(*   parsed    the outcome of every direct call of a parser method         *)
(*   tables    the function table objects, addressed by identity 1..Len;   *)
(*             the first is the module's DefaultFunctionDefinitions        *)
(*   interpreters  the DiceInterpreters constructed: the functions field   *)
(*             of each, a reference to a table                             *)
(*   constructed   the functions argument each was constructed with        *)
(***************************************************************************)
VARIABLES heap, input, ast, random, rpos, config, results, evals, parsed,
          tables, interpreters, constructed

vars ==
    <<heap, input, ast, random, rpos, config, results, evals, parsed, tables,
      interpreters, constructed>>

\* The identity of the object the module default-function-definitions
\* exports.
DefaultFunctionDefinitions == 1

(***************************************************************************)
(* AST nodes: a type tag, ordered children, an attribute map.  An absent   *)
(* attribute reads as undefined.                                           *)
(***************************************************************************)
NoAttributes ==
    [value |-> Undefined, sides |-> Undefined, drop |-> Undefined,
     critical |-> Undefined, name |-> Undefined, type |-> Undefined,
     direction |-> Undefined, penetrate |-> Undefined, once |-> Undefined]

\* Ast.Factory.create(type): a fresh node; the result is the grown heap, the
\* new node's identity is its length.
FactoryCreate(h, type) ==
    Append(h, [type |-> type, children |-> <<>>, attrs |-> NoAttributes])

getAttribute(h, x, key) == h[x].attrs[key]

setAttribute(h, x, key, v) == [h EXCEPT ![x].attrs[key] = v]

getChildCount(h, x) == Len(h[x].children)

\* getChild(i), zero-based; 0 stands for the undefined of a missing child.
getChild(h, x, i) == IF i < Len(h[x].children) THEN h[x].children[i + 1] ELSE 0

addChild(h, x, c) == [h EXCEPT ![x].children = Append(@, c)]

clearChildren(h, x) == [h EXCEPT ![x].children = <<>>]

\* copy(): a deep copy.  The result is [heap, ref]: the grown heap and the
\* identity of the copy of x.
RECURSIVE copy(_, _)
RECURSIVE copyChildren(_, _, _, _)
copyChildren(h, from, to, i) ==
    IF i > Len(h[from].children) THEN h
    ELSE LET c == copy(h, h[from].children[i])
         IN  copyChildren(addChild(c.heap, to, c.ref), from, to, i + 1)

copy(h, x) ==
    LET h1 == FactoryCreate(h, h[x].type)
        to == Len(h1)
        h2 == [h1 EXCEPT ![to].attrs = h[x].attrs]
    IN  [heap |-> copyChildren(h2, x, to, 1), ref |-> to]

\* The nodes of the tree rooted at x.
RECURSIVE Nodes(_, _)
Nodes(h, x) ==
    {x} \cup UNION {Nodes(h, h[x].children[i]) : i \in 1..Len(h[x].children)}

\* The tree rooted at x as a value: what two structurally equal trees share.
RECURSIVE Tree(_, _)
Tree(h, x) ==
    [type |-> h[x].type, attrs |-> h[x].attrs,
     children |-> [i \in 1..Len(h[x].children) |-> Tree(h, h[x].children[i])]]

(***************************************************************************)
(* The interpreter.  Every method takes and returns an evaluation context: *)
(* the interpreter's function table, the definitions called so far (the    *)
(* name looked up and the definition found), the heap, the provider's      *)
(* position, the numberBetween calls made so far and how the call ended:   *)
(* st is "ok" (val, ref or rolls hold                                      *)
(* the returned number, node or array), "throw" (msg holds the message) or *)
(* "diverge" (a loop that never exits); test holds a returned boolean.     *)
(***************************************************************************)
Context(functions, h, p) ==
    [functions |-> functions, applied |-> <<>>, heap |-> h, rpos |-> p,
     calls |-> <<>>, st |-> "ok", msg |-> "", val |-> Undefined, ref |-> 0, rolls |-> <<>>,
     test |-> FALSE]

Throw(E, m) == [E EXCEPT !.st = "throw", !.msg = m]

Return(E, v) == [E EXCEPT !.val = v]

\* Sequencing: the statements K that follow a call that ended in E run only
\* if the call returned.
Then(E, K(_)) == IF E.st # "ok" THEN E ELSE K(E)

\* A `sides` argument is an ExpressionNode or a plain value.
NodeArg(x) == [isNode |-> TRUE, ref |-> x, v |-> Undefined]
ValueArg(v) == [isNode |-> FALSE, ref |-> 0, v |-> v]

\* random.numberBetween(min, max): the provider answers with its next number,
\* whatever the range asked for.
numberBetween(E, min, max) ==
    [E EXCEPT !.rpos = @ + 1,
              !.calls = Append(@, [min |-> min, max |-> max,
                                   ret |-> Num(random[(E.rpos % Len(random)) + 1])]),
              !.val = Num(random[(E.rpos % Len(random)) + 1])]

expectChildCount(E, x, count) ==
    IF getChildCount(E.heap, x) < count
    THEN Throw(E, "Expected " \o E.heap[x].type \o " node to have "
                  \o Numerals[count + 1] \o " children, but found "
                  \o Numerals[getChildCount(E.heap, x) + 1] \o ".")
    ELSE E

evaluateDiceRoll(E, x) ==
    IF getAttribute(E.heap, x, "drop") # Str("yes")
    THEN Return(E, getAttribute(E.heap, x, "value"))
    ELSE Return(E, Num(0))

RECURSIVE evaluate(_, _)

\* createDiceRollValue with minValue starting at 0 instead of 1.
createDiceRollValueFromZero(E, sides) ==
    IF (IF sides.isNode THEN getAttribute(E.heap, sides.ref, "value") ELSE sides.v)
         = Str("fate")
    THEN numberBetween(E, Num(-1), Num(1))
    ELSE Then(IF sides.isNode THEN evaluate(E, sides.ref) ELSE Return(E, sides.v),
              LAMBDA e : numberBetween(e, Num(0), MathRound(e.val)))

\* createDiceRollValue forcing the provider's answer into the range asked.
createDiceRollValueClamped(E, sides) ==
    Then(IF (IF sides.isNode THEN getAttribute(E.heap, sides.ref, "value") ELSE sides.v)
              = Str("fate")
         THEN numberBetween(E, Num(-1), Num(1))
         ELSE Then(IF sides.isNode THEN evaluate(E, sides.ref) ELSE Return(E, sides.v),
                   LAMBDA e : numberBetween(e, Num(1), MathRound(e.val))),
         LAMBDA e : Return(e, IF JsLess(e.val, e.calls[Len(e.calls)].min)
                              THEN e.calls[Len(e.calls)].min
                              ELSE IF JsLess(e.calls[Len(e.calls)].max, e.val)
                              THEN e.calls[Len(e.calls)].max
                              ELSE e.val))

createDiceRollValue(E, sides) ==
    IF (IF sides.isNode THEN getAttribute(E.heap, sides.ref, "value") ELSE sides.v)
         = Str("fate")
    THEN numberBetween(E, Num(-1), Num(1))
    ELSE Then(IF sides.isNode THEN evaluate(E, sides.ref) ELSE Return(E, sides.v),
              LAMBDA e : numberBetween(e, Num(1), MathRound(e.val)))

\* A DiceRoll node with the given value and drop = "no"; returned in ref.
newDiceRoll(E, value) ==
    [E EXCEPT !.heap = Append(@, [type |-> "DiceRoll", children |-> <<>>,
                                  attrs |-> [NoAttributes EXCEPT
                                                !.value = value,
                                                !.drop = Str("no")]]),
              !.ref = Len(E.heap) + 1]

createDiceRoll(E, sides) ==
    Then(createDiceRollValue(E, sides), LAMBDA e : newDiceRoll(e, e.val))

\* The loop of evaluateDice: for (x = 0; x < num; x++).
RECURSIVE rollDice(_, _, _, _, _, _)
rollDice(E, dice, sides, num, x, total) ==
    IF ~JsLess(Num(x), num) THEN Return(E, total)
    ELSE IF num = PosInf THEN [E EXCEPT !.st = "diverge"]
    ELSE Then(createDiceRoll(E, NodeArg(sides)), LAMBDA c :
         Then(evaluate([c EXCEPT !.heap = addChild(@, dice, c.ref)], c.ref), LAMBDA e :
         rollDice(e, dice, sides, num, x + 1, JsAdd(total, e.val))))

evaluateDice(E, x) ==
    Then(expectChildCount(E, x, 2), LAMBDA e0 :
    Then(evaluate(e0, getChild(e0.heap, x, 0)), LAMBDA e1 :
    Then(evaluate(e1, getChild(e1.heap, x, 1)), LAMBDA e2 :
    rollDice([e2 EXCEPT !.heap = clearChildren(setAttribute(@, x, "sides", e2.val), x)],
             x, getChild(e1.heap, x, 1), MathRound(e1.val), 0, Num(0)))))

\* for (x = from; x < getChildCount(); x++) total += evaluate(getChild(x)).
RECURSIVE evaluateGroup(_, _, _, _)
evaluateGroup(E, x, from, total) ==
    IF from >= getChildCount(E.heap, x) THEN Return(E, total)
    ELSE Then(evaluate(E, getChild(E.heap, x, from)), LAMBDA e :
         evaluateGroup(e, x, from + 1, JsAdd(total, e.val)))

\* The comparison nodes' case: every child is evaluated, the value stays 0.
RECURSIVE evaluateChildren(_, _, _)
evaluateChildren(E, x, from) ==
    IF from >= getChildCount(E.heap, x) THEN Return(E, Num(0))
    ELSE Then(evaluate(E, getChild(E.heap, x, from)), LAMBDA e :
         evaluateChildren(e, x, from + 1))

\* The dice node is returned in ref.
\* A search that settles for the childless node it ends on.
RECURSIVE findLeftmostNode(_, _)
findLeftmostNode(E, x) ==
    IF E.heap[x].type = "Dice" \/ getChildCount(E.heap, x) < 1
    THEN [E EXCEPT !.ref = x]
    ELSE Then(evaluate(E, getChild(E.heap, x, 0)), LAMBDA e :
         findLeftmostNode(e, getChild(E.heap, x, 0)))

RECURSIVE findLeftmostDiceNode(_, _)
findLeftmostDiceNode(E, x) ==
    IF E.heap[x].type = "Dice" THEN [E EXCEPT !.ref = x]
    ELSE IF getChildCount(E.heap, x) < 1 THEN Throw(E, "Missing dice node.")
    ELSE Then(evaluate(E, getChild(E.heap, x, 0)), LAMBDA e :
         findLeftmostDiceNode(e, getChild(E.heap, x, 0)))

\* for (rollIndex = from; rollIndex < dice.getChildCount(); rollIndex++):
\* the dice are pushed to rolls and their evaluated values summed.
RECURSIVE sumDiceRolls(_, _, _, _)
sumDiceRolls(E, dice, from, total) ==
    IF from >= getChildCount(E.heap, dice) THEN Return(E, total)
    ELSE Then(evaluate([E EXCEPT !.rolls = Append(@, getChild(E.heap, dice, from))],
                       getChild(E.heap, dice, from)), LAMBDA e :
         sumDiceRolls(e, dice, from + 1, JsAdd(total, e.val)))

\* Whether the comparator of the given direction puts roll a after roll b.
sortOrder(h, a, b, direction) ==
    CASE direction = Str("descending") ->
            JsLess(getAttribute(h, a, "value"), getAttribute(h, b, "value"))
      [] direction = Str("ascending") ->
            JsLess(getAttribute(h, b, "value"), getAttribute(h, a, "value"))
      [] OTHER -> FALSE

\* Where a stable sort puts roll x among the sorted rolls done: in front of
\* the first roll that the comparator puts after it.
sortPosition(h, done, x, direction) ==
    IF \E i \in 1..Len(done) : sortOrder(h, done[i], x, direction)
    THEN CHOOSE i \in 1..Len(done) :
            /\ sortOrder(h, done[i], x, direction)
            /\ \A j \in 1..(i - 1) : ~sortOrder(h, done[j], x, direction)
    ELSE Len(done) + 1

InsertAt(seq, p, x) == SubSeq(seq, 1, p - 1) \o <<x>> \o SubSeq(seq, p, Len(seq))

\* Array.prototype.sort, which is stable.
RECURSIVE sort(_, _, _, _)
sort(h, rolls, direction, done) ==
    IF rolls = <<>> THEN done
    ELSE sort(h, Tail(rolls), direction,
              InsertAt(done, sortPosition(h, done, Head(rolls), direction), Head(rolls)))

\* The sorted rolls are returned in rolls, their total in val.
getSortedDiceRolls(E, dice, direction) ==
    Then(sumDiceRolls([E EXCEPT !.rolls = <<>>], dice, 0, Num(0)), LAMBDA e :
    [e EXCEPT !.rolls = sort(e.heap, @, direction, <<>>)])

\* rolls.forEach of evaluateKeep (keep) and of evaluateDrop (~keep): the
\* first countTotal rolls are marked one way, the rest the other, and the
\* values of the rolls marked drop = "no" are summed into val.
RECURSIVE forEachRoll(_, _, _, _, _, _)
forEachRoll(E, rolls, count, countTotal, total, keep) ==
    IF count >= Len(rolls) THEN Return(E, total)
    ELSE IF JsLess(Num(count), countTotal) = keep
    THEN forEachRoll([E EXCEPT !.heap = setAttribute(@, rolls[count + 1], "drop", Str("no"))],
                     rolls, count + 1, countTotal,
                     JsAdd(total, getAttribute(E.heap, rolls[count + 1], "value")), keep)
    ELSE forEachRoll([E EXCEPT !.heap = setAttribute(@, rolls[count + 1], "drop", Str("yes"))],
                     rolls, count + 1, countTotal, total, keep)

\* The direction evaluateKeep and evaluateDrop sort in.
typeDirection(type) ==
    IF type = Str("lowest") THEN Str("ascending") ELSE Str("descending")

\* The body evaluateKeep and evaluateDrop share; they differ in forEach's
\* branches only.
keepOrDrop(E, x, keep) ==
    Then(expectChildCount(E, x, 1), LAMBDA e0 :
    Then(findLeftmostDiceNode(e0, x), LAMBDA e1 :
    Then(IF getChildCount(e1.heap, x) > 1
         THEN evaluate(e1, getChild(e1.heap, x, 1))
         ELSE Return(e1, Num(1)), LAMBDA e2 :
    Then(evaluate(e2, e1.ref), LAMBDA e3 :
    Then(getSortedDiceRolls(e3, e1.ref,
             typeDirection(getAttribute(e3.heap, x, "type"))), LAMBDA e4 :
    forEachRoll(e4, e4.rolls, 0, e2.val, Num(0), keep))))))

evaluateKeep(E, x) == keepOrDrop(E, x, TRUE)

evaluateDrop(E, x) == keepOrDrop(E, x, FALSE)

RECURSIVE addChildren(_, _, _)
addChildren(h, x, cs) ==
    IF cs = <<>> THEN h ELSE addChildren(addChild(h, x, Head(cs)), x, Tail(cs))

evaluateSort(E, x) ==
    Then(expectChildCount(E, x, 1), LAMBDA e0 :
    Then(findLeftmostDiceNode(e0, x), LAMBDA e1 :
    Then(getSortedDiceRolls(e1, e1.ref, getAttribute(e1.heap, x, "direction")), LAMBDA e2 :
    [e2 EXCEPT !.heap = addChildren(clearChildren(@, e1.ref), e1.ref, e2.rolls)])))

ComparisonTypes == {"Equal", "Greater", "GreaterOrEqual", "Less", "LessOrEqual"}

\* <=, false when either side is NaN.
JsLessOrEqual(x, y) ==
    /\ ToNumber(x).k # "nan" /\ ToNumber(y).k # "nan"
    /\ (JsLess(x, y) \/ ToNumber(x) = ToNumber(y))

\* The boolean is returned in test.
evaluateComparison(E, lhs, x) ==
    Then(expectChildCount(E, x, 1), LAMBDA e0 :
    IF E.heap[x].type \notin ComparisonTypes
    THEN Throw(e0, "Unrecognized comparison operator.")
    ELSE Then(evaluate(e0, getChild(e0.heap, x, 0)), LAMBDA e1 :
         [e1 EXCEPT !.test =
            CASE E.heap[x].type = "Equal" -> JsStrictEq(lhs, e1.val)
              [] E.heap[x].type = "Greater" -> JsLess(e1.val, lhs)
              [] E.heap[x].type = "GreaterOrEqual" -> JsLessOrEqual(e1.val, lhs)
              [] E.heap[x].type = "Less" -> JsLess(lhs, e1.val)
              [] E.heap[x].type = "LessOrEqual" -> JsLessOrEqual(lhs, e1.val)]))

\* condition && evaluateComparison(dieValue, condition) || other, the test of
\* the while loops; condition 0 stands for undefined.
whileTest(E, condition, dieValue, other) ==
    IF condition # 0
    THEN Then(evaluateComparison(E, dieValue, condition), LAMBDA c :
         [c EXCEPT !.test = c.test \/ other])
    ELSE [E EXCEPT !.test = other]

\* Where a while loop stands when it tests its condition: the provider's
\* place in its cycle and the die's value.  A loop that tests twice at the
\* same place repeats for ever.
LoopPlace(E, dieValue) == <<E.rpos % Len(random), dieValue>>

\* The while loop of evaluateExplode; total is returned in val, newRolls in
\* rolls.
RECURSIVE explodeWhile(_, _, _, _, _, _, _, _)
explodeWhile(E, condition, sides, penetrate, dieValue, total, newRolls, seen) ==
    Then(whileTest(E, condition, dieValue, JsStrictEq(dieValue, sides)), LAMBDA t :
    IF ~t.test THEN [t EXCEPT !.val = total, !.rolls = newRolls]
    ELSE IF LoopPlace(t, dieValue) \in seen THEN [t EXCEPT !.st = "diverge"]
    ELSE Then(createDiceRoll(t, ValueArg(sides)), LAMBDA c :
         Then(evaluate(c, c.ref), LAMBDA e :
         explodeWhile(e, condition, sides, penetrate,
                      IF penetrate THEN JsSub(e.val, Num(1)) ELSE e.val,
                      JsAdd(total, IF penetrate THEN JsSub(e.val, Num(1)) ELSE e.val),
                      Append(newRolls, c.ref),
                      seen \cup {LoopPlace(t, dieValue)}))))

\* The for loop of evaluateExplode.
RECURSIVE explodeRolls(_, _, _, _, _, _, _, _)
explodeRolls(E, dice, condition, sides, penetrate, rollIndex, total, newRolls) ==
    IF rollIndex >= getChildCount(E.heap, dice)
    THEN [E EXCEPT !.val = total, !.rolls = newRolls]
    ELSE IF getAttribute(E.heap, getChild(E.heap, dice, rollIndex), "drop") = Str("yes")
    THEN explodeRolls(E, dice, condition, sides, penetrate, rollIndex + 1, total, newRolls)
    ELSE Then(evaluate(E, getChild(E.heap, dice, rollIndex)), LAMBDA e :
         Then(explodeWhile(e, condition, sides, penetrate, e.val,
                           JsAdd(total, e.val), newRolls, {}), LAMBDA w :
         explodeRolls(w, dice, condition, sides, penetrate, rollIndex + 1,
                      w.val, w.rolls)))

evaluateExplode(E, x) ==
    Then(expectChildCount(E, x, 1), LAMBDA e0 :
    Then(findLeftmostDiceNode(e0, x), LAMBDA d :
    Then(IF getChildCount(d.heap, x) > 1
         THEN evaluate(d, getChild(d.heap, x, 1)) ELSE d, LAMBDA c :
    Then(evaluate(c, d.ref), LAMBDA e :
    Then(explodeRolls(e, d.ref, getChild(e.heap, x, 1),
                      getAttribute(e.heap, d.ref, "sides"),
                      getAttribute(e.heap, x, "penetrate") = Str("yes"),
                      0, Num(0), <<>>), LAMBDA r :
    Return([r EXCEPT !.heap = addChildren(@, d.ref, r.rolls)], r.val))))))

\* condition = Factory.create(Equal); condition.addChild(Factory.create(
\* Integer).setAttribute("value", value)); the Equal node is returned in ref.
newCondition(E, value) ==
    [E EXCEPT !.heap = addChild(
                  setAttribute(FactoryCreate(FactoryCreate(@, "Equal"), "Integer"),
                               Len(E.heap) + 2, "value", value),
                  Len(E.heap) + 1, Len(E.heap) + 2),
              !.ref = Len(E.heap) + 1]

\* The condition of evaluateCritical: the second child, or the default one
\* of the type; returned in ref.
criticalCondition(E, x, dice) ==
    IF getChildCount(E.heap, x) > 1
    THEN Then(evaluate(E, getChild(E.heap, x, 1)), LAMBDA e :
         [e EXCEPT !.ref = getChild(E.heap, x, 1)])
    ELSE IF getAttribute(E.heap, x, "type") = Str("success")
    THEN Then(expectChildCount(E, dice, 2), LAMBDA e :
         newCondition(e, getAttribute(e.heap, dice, "sides")))
    ELSE newCondition(E, Num(1))

\* The for loop of evaluateCritical.
RECURSIVE criticalRolls(_, _, _, _, _, _)
criticalRolls(E, dice, condition, type, rollIndex, total) ==
    IF rollIndex >= getChildCount(E.heap, dice) THEN Return(E, total)
    ELSE Then(evaluate(E, getChild(E.heap, dice, rollIndex)), LAMBDA e :
         Then(evaluateComparison(e, e.val, condition), LAMBDA c :
         criticalRolls(IF c.test
                       THEN [c EXCEPT !.heap = setAttribute(@,
                                getChild(E.heap, dice, rollIndex), "critical", type)]
                       ELSE c,
                       dice, condition, type, rollIndex + 1, JsAdd(total, e.val))))

evaluateCritical(E, x) ==
    Then(expectChildCount(E, x, 1), LAMBDA e0 :
    Then(findLeftmostDiceNode(e0, x), LAMBDA d :
    Then(criticalCondition(d, x, d.ref), LAMBDA c :
    Then(evaluate(c, d.ref), LAMBDA e :
    criticalRolls(e, d.ref, c.ref, getAttribute(e.heap, x, "type"), 0, Num(0))))))

\* The while loop of evaluateReroll; dieValue is returned in val.
RECURSIVE rerollWhile(_, _, _, _, _, _)
rerollWhile(E, condition, sides, once, dieValue, seen) ==
    Then(whileTest(E, condition, dieValue, JsStrictEq(dieValue, Num(1))), LAMBDA t :
    IF ~t.test THEN Return(t, dieValue)
    ELSE IF LoopPlace(t, dieValue) \in seen THEN [t EXCEPT !.st = "diverge"]
    ELSE Then(createDiceRollValue(t, ValueArg(sides)), LAMBDA v :
         IF once THEN Return(v, v.val)
         ELSE rerollWhile(v, condition, sides, once, v.val,
                          seen \cup {LoopPlace(t, dieValue)})))

\* The for loop of evaluateReroll.
RECURSIVE rerollRolls(_, _, _, _, _, _, _)
rerollRolls(E, dice, condition, sides, once, rollIndex, total) ==
    IF rollIndex >= getChildCount(E.heap, dice) THEN Return(E, total)
    ELSE IF getAttribute(E.heap, getChild(E.heap, dice, rollIndex), "drop") = Str("yes")
    THEN rerollRolls(E, dice, condition, sides, once, rollIndex + 1, total)
    ELSE Then(evaluate(E, getChild(E.heap, dice, rollIndex)), LAMBDA e :
         Then(rerollWhile(e, condition, sides, once, e.val, {}), LAMBDA w :
         rerollRolls([w EXCEPT !.heap = setAttribute(@,
                          getChild(E.heap, dice, rollIndex), "value", w.val)],
                     dice, condition, sides, once, rollIndex + 1,
                     JsAdd(total, w.val))))

evaluateReroll(E, x) ==
    Then(expectChildCount(E, x, 1), LAMBDA e0 :
    Then(findLeftmostDiceNode(e0, x), LAMBDA d :
    Then(IF getChildCount(d.heap, x) > 1
         THEN evaluate(d, getChild(d.heap, x, 1)) ELSE d, LAMBDA c :
    Then(evaluate(c, d.ref), LAMBDA e :
    rerollRolls(e, d.ref, getChild(e.heap, x, 1),
                getAttribute(e.heap, d.ref, "sides"),
                getAttribute(e.heap, x, "once") = Str("yes"), 0, Num(0))))))

BinaryOp(type, l, r) ==
    CASE type = "Add" -> JsAdd(l, r)
      [] type = "Subtract" -> JsSub(l, r)
      [] type = "Multiply" -> JsMul(l, r)
      [] type = "Divide" -> JsDiv(l, r)
      [] type = "Modulo" -> JsMod(l, r)
      [] type = "Exponent" -> MathPow(l, r)

\* expectChildCount(expression, 2); value = evaluate(child 0) op evaluate(child 1).
evaluateBinary(E, x, type) ==
    Then(expectChildCount(E, x, 2), LAMBDA e0 :
    Then(evaluate(e0, getChild(e0.heap, x, 0)), LAMBDA e1 :
    Then(evaluate(e1, getChild(e1.heap, x, 1)), LAMBDA e2 :
    Return(e2, BinaryOp(type, e1.val, e2.val)))))

evaluateNegate(E, x) ==
    Then(expectChildCount(E, x, 1), LAMBDA e0 :
    Then(evaluate(e0, getChild(e0.heap, x, 0)), LAMBDA e1 :
    Return(e1, JsNeg(e1.val))))


\* A definition called as this.functions[fName](this, expression, errors).
callFunction(E, definition, x) ==
    Then(evaluate([E EXCEPT !.applied = Append(@,
                      [name |-> getAttribute(E.heap, x, "name").s,
                       definition |-> definition])],
                  getChild(E.heap, x, 0)), LAMBDA e :
    Return(e, MathFunction(definition, e.val)))

\* The text of fName in the message of the error.
functionName(E, x) ==
    IF getAttribute(E.heap, x, "name").k = "str"
    THEN getAttribute(E.heap, x, "name").s
    ELSE "undefined"

evaluateFunction(E, x) ==
    IF \/ getAttribute(E.heap, x, "name").k # "str"
       \/ getAttribute(E.heap, x, "name").s \notin DOMAIN E.functions
    THEN Throw(E, "Unknown function: " \o functionName(E, x))
    ELSE callFunction(E, E.functions[getAttribute(E.heap, x, "name").s], x)

\* The switch of evaluate: the value of a node that has none yet.
evaluateNode(E, x, type) ==
    CASE type \in {"Add", "Subtract", "Multiply", "Divide", "Modulo", "Exponent"} ->
            evaluateBinary(E, x, type)
      [] type = "Negate" -> evaluateNegate(E, x)
      [] type \in {"DiceSides", "Integer"} ->
            Return(E, getAttribute(E.heap, x, "value"))
      [] type = "Dice" -> evaluateDice(E, x)
      [] type = "Function" -> evaluateFunction(E, x)
      [] type = "Group" -> evaluateGroup(E, x, 0, Num(0))
      [] type = "Keep" -> evaluateKeep(E, x)
      [] type = "Drop" -> evaluateDrop(E, x)
      [] type = "Explode" -> evaluateExplode(E, x)
      [] type = "Critical" -> evaluateCritical(E, x)
      [] type = "Reroll" -> evaluateReroll(E, x)
      [] type = "Sort" -> evaluateSort(E, x)
      [] type \in ComparisonTypes -> evaluateChildren(E, x, 0)
      [] OTHER -> Throw(E, "Unrecognized node.")

\* The memo test of evaluate: whether the node is evaluated afresh.
needsEvaluation(h, x) == ~Truthy(getAttribute(h, x, "value"))

evaluate(E, x) ==
    IF x = 0 THEN Throw(E, "Null node reference found.")
    ELSE IF E.heap[x].type = "DiceRoll" THEN evaluateDiceRoll(E, x)
    ELSE IF needsEvaluation(E.heap, x)
    THEN Then(evaluateNode(E, x, E.heap[x].type), LAMBDA e :
         Return([e EXCEPT !.heap = setAttribute(@, x, "value", e.val)], e.val))
    ELSE Return(E, getAttribute(E.heap, x, "value"))

countSuccesses(h, expression) == 0

countFailures(h, expression) == 0

\* interpret evaluating the tree it is given instead of a copy of it.
interpretInPlace(functions, h, p, expression) ==
    LET e == evaluate(Context(functions, h, p), expression)
    IN  [heap |-> e.heap, rpos |-> e.rpos, st |-> e.st, msg |-> e.msg,
         calls |-> e.calls, applied |-> e.applied, given |-> Tree(h, expression),
         tree |-> Tree(e.heap, expression),
         result |-> [exp |-> expression, total |-> e.val,
                     successes |-> countSuccesses(e.heap, expression),
                     fails |-> countFailures(e.heap, expression),
                     errors |-> <<>>]]

\* interpret(expression): the heap and provider position the call leaves,
\* how it ended, the numberBetween calls it made, the tree it was given as it
\* was when the call began, the expanded tree as it is when the call returns
\* and, when nothing was thrown, the DiceResult.  No statement of the
\* interpreter adds to errors.
interpret(functions, h, p, expression) ==
    LET c == copy(h, expression)
        exp == c.ref
        errors == <<>>
        e == evaluate(Context(functions, c.heap, p), exp)
        total == e.val
        successes == countSuccesses(e.heap, exp)
        fails == countFailures(e.heap, exp)
    IN  [heap |-> e.heap, rpos |-> e.rpos, st |-> e.st, msg |-> e.msg,
         calls |-> e.calls, applied |-> e.applied, given |-> Tree(h, expression),
         tree |-> Tree(e.heap, exp),
         result |-> [exp |-> exp, total |-> total, successes |-> successes,
                     fails |-> fails, errors |-> errors]]

(***************************************************************************)
(* The lexer and the parser.  A token is [type, position, value], value    *)
(* the raw text.  A parser method takes and returns the parser's state:    *)
(* the heap its nodes are created in, the token stream and the lexer's     *)
(* position in it, how the call ended (st "ok" or "error"), the node it    *)
(* returned (ref) and the token it last consumed (token).                  *)
(***************************************************************************)
Token(type, position, value) ==
    [type |-> type, position |-> position, value |-> value]

Parser(h, tokens) ==
    [heap |-> h, tokens |-> tokens, pos |-> 1, st |-> "ok", ref |-> 0,
     token |-> Token("EndOfInput", 0, "")]

\* lexer.peekNextToken(): past the last token the lexer answers EndOfInput.
peekNextToken(P) ==
    IF P.pos <= Len(P.tokens) THEN P.tokens[P.pos]
    ELSE Token("EndOfInput", Len(P.tokens), "")

\* lexer.getNextToken(): the token is returned in token.
getNextToken(P) == [P EXCEPT !.token = peekNextToken(P), !.pos = @ + 1]

\* BasicParser.error: the parse is abandoned.
error(P) == [P EXCEPT !.st = "error"]

\* BasicParser.expectAndConsume(expected)
expectAndConsume(P, expected) ==
    IF P.st # "ok" THEN P
    ELSE IF peekNextToken(P).type = expected THEN getNextToken(P)
    ELSE error(P)

\* Number(text): the numeral's number; 0 for the empty text; NaN for text
\* that is no numeral.
Number(text) ==
    IF \E i \in 1..Len(Numerals) : Numerals[i] = text
    THEN Num((CHOOSE i \in 1..Len(Numerals) : Numerals[i] = text) - 1)
    ELSE IF text = "" THEN Num(0) ELSE NaN

BooleanOperatorMap(type) ==
    CASE type = "Equals" -> "Equal"
      [] type = "Greater" -> "Greater"
      [] type = "Less" -> "Less"
      [] type = "GreaterOrEqual" -> "GreaterOrEqual"
      [] type = "LessOrEqual" -> "LessOrEqual"
      [] OTHER -> ""

AddOperatorMap(type) ==
    CASE type = "Plus" -> "Add"
      [] type = "Minus" -> "Subtract"
      [] OTHER -> ""

MultiOperatorMap(type) ==
    CASE type = "DoubleAsterisk" -> "Exponent"
      [] type = "Asterisk" -> "Multiply"
      [] type = "Slash" -> "Divide"
      [] type = "Percent" -> "Modulo"
      [] OTHER -> ""

\* Factory.create(type): the new node is returned in ref.
create(P, type) == [P EXCEPT !.heap = FactoryCreate(@, type), !.ref = Len(P.heap) + 1]

\* parent.addChild(P.ref): ref becomes the parent.
adopt(P, parent) == [P EXCEPT !.heap = addChild(@, parent, P.ref), !.ref = parent]

\* newRoot = Factory.create(type); newRoot.addChild(root): ref is newRoot.
newRootOver(P, type, root) == adopt([create(P, type) EXCEPT !.ref = root], Len(P.heap) + 1)

RECURSIVE parseExpression(_)

parseInteger(P) ==
    Then(getNextToken(P), LAMBDA p :
    Then(create(p, "Integer"), LAMBDA q :
    [q EXCEPT !.heap = setAttribute(@, q.ref, "value", Number(p.token.value))]))

parseBracketedExpression(P) ==
    expectAndConsume(parseExpression(getNextToken(P)), "ParenthesisClose")

\* An addChild that returns the parent: the attribute lands on the Dice node.
addDiceSidesOnRoot(P, root, value) ==
    Then(create(P, "DiceSides"), LAMBDA q :
    Then(adopt(q, root), LAMBDA r :
    [r EXCEPT !.heap = setAttribute(@, root, "value", value)]))

\* root.addChild(Factory.create(DiceSides)).setAttribute("value", value):
\* addChild returns the child, so the attribute is set on the DiceSides node.
addDiceSides(P, root, value) ==
    Then(create(P, "DiceSides"), LAMBDA q :
    adopt([q EXCEPT !.heap = setAttribute(@, q.ref, "value", value)], root))

\* rollTimes is the count operand already parsed, or 0 for none.
parseSimpleDiceRoll(P, rollTimes) ==
    Then(IF rollTimes # 0 THEN [P EXCEPT !.ref = rollTimes]
         ELSE CASE peekNextToken(P).type = "Integer" -> parseInteger(P)
                [] peekNextToken(P).type = "ParenthesisOpen" ->
                       parseBracketedExpression(P)
                [] OTHER -> error(P), LAMBDA p0 :
    Then(expectAndConsume(p0, "Identifier"), LAMBDA p1 :
    Then(newRootOver(p1, "Dice", p0.ref), LAMBDA p2 :
    CASE p1.token.value = "d" ->
            Then(expectAndConsume(p2, "Integer"), LAMBDA p3 :
            addDiceSides(p3, p2.ref, Number(p3.token.value)))
      [] p1.token.value = "dF" -> addDiceSides(p2, p2.ref, Str("fate"))
      [] OTHER -> p2)))

parseDiceRoll(P, rollTimes) == parseSimpleDiceRoll(P, rollTimes)

\* The comma-separated list of a function call or a group: each parsed
\* expression becomes a child of root.
RECURSIVE parseArguments(_, _)
parseArguments(P, root) ==
    Then(parseExpression(P), LAMBDA p0 :
    Then(adopt(p0, root), LAMBDA p1 :
    IF peekNextToken(p1).type = "Comma"
    THEN parseArguments(getNextToken(p1), root)
    ELSE p1))

parseFunctionCall(P) ==
    Then(expectAndConsume(P, "Identifier"), LAMBDA p0 :
    Then(create(p0, "Function"), LAMBDA p1 :
    Then(expectAndConsume([p1 EXCEPT !.heap = setAttribute(@, p1.ref, "name",
                                                  Str(p0.token.value))],
                          "ParenthesisOpen"), LAMBDA p2 :
    Then(IF peekNextToken(p2).type # "ParenthesisClose"
         THEN parseArguments(p2, p1.ref) ELSE p2, LAMBDA p3 :
    Then(expectAndConsume(p3, "ParenthesisClose"), LAMBDA p4 :
    [p4 EXCEPT !.ref = p1.ref])))))

parseExpressionGroup(P) ==
    Then(create(getNextToken(P), "Group"), LAMBDA p1 :
    Then(IF peekNextToken(p1).type # "BraceClose"
         THEN parseArguments(p1, p1.ref) ELSE p1, LAMBDA p2 :
    Then(expectAndConsume(p2, "BraceClose"), LAMBDA p3 :
    [p3 EXCEPT !.ref = p1.ref])))

parseFactor(P) ==
    CASE peekNextToken(P).type = "Identifier" -> parseFunctionCall(P)
      [] peekNextToken(P).type = "ParenthesisOpen" ->
            Then(parseBracketedExpression(P), LAMBDA p :
            IF peekNextToken(p).type = "Identifier"
            THEN parseDiceRoll(p, p.ref)
            ELSE p)
      [] peekNextToken(P).type = "BraceOpen" -> parseExpressionGroup(P)
      [] peekNextToken(P).type = "Integer" ->
            Then(parseInteger(P), LAMBDA number :
            IF peekNextToken(number).type # "Identifier"
            THEN number
            ELSE parseDiceRoll(number, number.ref))
      [] OTHER -> error(P)

\* The while loop of parseTerm; P.ref is the root built so far.
RECURSIVE parseTermLoop(_)
parseTermLoop(P) ==
    IF MultiOperatorMap(peekNextToken(P).type) = "" THEN P
    ELSE Then(newRootOver(P, MultiOperatorMap(peekNextToken(P).type), P.ref), LAMBDA p1 :
         Then(parseFactor(getNextToken(p1)), LAMBDA p2 :
         parseTermLoop(adopt(p2, p1.ref))))

parseTerm(P) == Then(parseFactor(P), LAMBDA p : parseTermLoop(p))

\* The while loop of parseSimpleExpression; P.ref is the root built so far.
RECURSIVE parseSimpleExpressionLoop(_)
parseSimpleExpressionLoop(P) ==
    IF AddOperatorMap(peekNextToken(P).type) = "" THEN P
    ELSE Then(newRootOver(P, AddOperatorMap(peekNextToken(P).type), P.ref), LAMBDA p1 :
         Then(parseTerm(getNextToken(p1)), LAMBDA p2 :
         parseSimpleExpressionLoop(adopt(p2, p1.ref))))

parseSimpleExpression(P) ==
    Then(parseTerm(IF AddOperatorMap(peekNextToken(P).type) # ""
                   THEN getNextToken(P) ELSE P), LAMBDA p1 :
    parseSimpleExpressionLoop(IF peekNextToken(P).type = "Minus"
                              THEN newRootOver(p1, "Negate", p1.ref) ELSE p1))

parseExpression(P) ==
    Then(parseSimpleExpression(P), LAMBDA p0 :
    IF BooleanOperatorMap(peekNextToken(p0).type) = "" THEN p0
    ELSE Then(newRootOver(p0, BooleanOperatorMap(peekNextToken(p0).type), p0.ref),
              LAMBDA p1 :
         Then(parseSimpleExpression(getNextToken(p1)), LAMBDA p2 :
         adopt(p2, p1.ref))))

parse(P) == parseExpression(P)

(***************************************************************************)
(* Expressions handed to the interpreter by a caller that builds the tree  *)
(* with the node factory.  A shape is a tree as a value.                   *)
(***************************************************************************)
Shape(type, attrs, children) ==
    [type |-> type, attrs |-> attrs, children |-> children]

IntegerShape(v) == Shape("Integer", [NoAttributes EXCEPT !.value = Num(v)], <<>>)

DiceSidesShape(v) == Shape("DiceSides", [NoAttributes EXCEPT !.value = v], <<>>)

DiceShape(count, sides) == Shape("Dice", NoAttributes, <<count, DiceSidesShape(sides)>>)

\* A Keep or Drop node of the given type ("highest", "lowest") over a
\* child, with its count operand or (count < 0) without one.
KeepDropShape(node, type, child, count) ==
    Shape(node, [NoAttributes EXCEPT !.type = Str(type)],
          IF count < 0 THEN <<child>> ELSE <<child, IntegerShape(count)>>)

SortShape(direction, child) ==
    Shape("Sort", [NoAttributes EXCEPT !.direction = Str(direction)], <<child>>)

\* A condition: a comparison node over its target.
ConditionShape(type, target) == Shape(type, NoAttributes, <<IntegerShape(target)>>)

\* Explode, Reroll and Critical nodes over a child, followed by the
\* condition when there is one (conditions is empty or holds one shape).
ExplodeShape(penetrate, child, conditions) ==
    Shape("Explode", [NoAttributes EXCEPT !.penetrate = Str(penetrate)],
          <<child>> \o conditions)

RerollShape(once, child, conditions) ==
    Shape("Reroll", [NoAttributes EXCEPT !.once = Str(once)], <<child>> \o conditions)

CriticalShape(type, child, conditions) ==
    Shape("Critical", [NoAttributes EXCEPT !.type = Str(type)], <<child>> \o conditions)

\* A Function node of a name over its arguments.
FunctionShape(name, children) ==
    Shape("Function", [NoAttributes EXCEPT !.name = Str(name)], children)

\* Factory.create, setAttribute and addChild for every node of the shape;
\* the result is [heap, ref].
RECURSIVE build(_, _)
RECURSIVE buildChildren(_, _, _, _)
buildChildren(h, to, shapes, i) ==
    IF i > Len(shapes) THEN h
    ELSE LET c == build(h, shapes[i])
         IN  buildChildren(addChild(c.heap, to, c.ref), to, shapes, i + 1)

build(h, shape) ==
    LET h1 == FactoryCreate(h, shape.type)
        to == Len(h1)
        h2 == [h1 EXCEPT ![to].attrs = shape.attrs]
    IN  [heap |-> buildChildren(h2, to, shape.children, 1), ref |-> to]

\* The dice the modifiers decorate: 1..MaxCount dice of MaxFace sides, or
\* fate dice.
ModifiedDice ==
    {DiceShape(IntegerShape(n), sides) :
        n \in 1..MaxCount, sides \in {Num(MaxFace), Str("fate")}}

KeepDropShapes ==
    {KeepDropShape(node, type, dice, count) :
        node \in {"Keep", "Drop"}, type \in {"highest", "lowest"},
        dice \in ModifiedDice, count \in {-1, 0, 2}}

\* A Keep or Drop node over a Keep or Drop node over dice.
StackedShapes ==
    {KeepDropShape(outer, outerType,
                   KeepDropShape(inner, innerType, dice, innerCount), outerCount) :
        outer \in {"Keep", "Drop"}, outerType \in {"highest", "lowest"},
        inner \in {"Keep", "Drop"}, innerType \in {"highest", "lowest"},
        dice \in ModifiedDice, innerCount \in {1}, outerCount \in 1..2}

Directions == {"ascending", "descending"}

SortShapes ==
    {SortShape(d, dice) : d \in Directions, dice \in ModifiedDice}
    \cup {SortShape(d, SortShape(d, dice)) : d \in Directions, dice \in ModifiedDice}

\* The dice the loops of Explode and Reroll run over: one or two dice of one
\* side, of two sides, or fate dice.
LoopDice ==
    {DiceShape(IntegerShape(n), sides) :
        n \in 1..2, sides \in {Num(1), Num(2), Str("fate")}}

\* No condition, one that no face of a numbered die escapes, and one that
\* only the face 2 meets.
Conditions == {<<>>, <<ConditionShape("Greater", 0)>>, <<ConditionShape("Equal", 2)>>}

YesNo == {"yes", "no"}

ExplodeShapes ==
    {ExplodeShape(p, dice, c) : p \in YesNo, dice \in LoopDice, c \in Conditions}

RerollShapes ==
    {RerollShape(o, dice, c) : o \in YesNo, dice \in LoopDice, c \in Conditions}

\* Critical successes and failures, without a condition and with one.
CriticalShapes ==
    {CriticalShape(t, DiceShape(IntegerShape(n), Num(MaxFace)), c) :
        t \in {"success", "failure"}, n \in 1..MaxCount,
        c \in {<<>>, <<ConditionShape("Greater", 1)>>}}

BinaryTypes == {"Add", "Subtract", "Multiply", "Divide", "Modulo", "Exponent"}

ModifierTypes == {"Keep", "Drop", "Sort", "Explode", "Critical", "Reroll"}

\* The quotient a / b as a tree.
DivideShape(a, b) == Shape("Divide", NoAttributes, <<IntegerShape(a), IntegerShape(b)>>)

\* Calls of functions that no table has.
UnknownFunctionShapes ==
    {FunctionShape(name, children) :
        name \in {"nope", "Round"},
        children \in {<<>>, <<DiceShape(IntegerShape(1), Num(MaxFace))>>}}

\* Operators short of operands.
ShortOperatorShapes ==
    {Shape(type, NoAttributes, children) :
        type \in BinaryTypes, children \in {<<>>, <<IntegerShape(MaxCount)>>}}
    \cup {Shape("Negate", NoAttributes, <<>>)}

\* The childless nodes a search for the dice may end on, and chains of first
\* children down to them.
DicelessChains ==
    LET bottoms == {IntegerShape(MaxCount), Shape("Group", NoAttributes, <<>>),
                    Shape("Add", NoAttributes, <<>>), FunctionShape("nope", <<>>)}
    IN  bottoms \cup {Shape("Negate", NoAttributes, <<b>>) : b \in bottoms}
                \cup {Shape("Group", NoAttributes, <<b, IntegerShape(1)>>) : b \in bottoms}

\* Modifiers with no dice below them.
DicelessModifierShapes ==
    {Shape(type, NoAttributes, <<chain>>) :
        type \in ModifierTypes, chain \in DicelessChains}

\* Trees that break the shape the interpreter expects.
MalformedShapes ==
    UnknownFunctionShapes \cup ShortOperatorShapes \cup DicelessModifierShapes

\* Calls of the default functions and of functions a caller may add, on a
\* quotient.
FunctionShapes ==
    {FunctionShape(name, <<DivideShape(a, 3)>>) :
        name \in {"round", "ceil", "up"}, a \in 1..2}

\* The functions argument of the constructor: none, an entry that
\* overrides a default, an entry that extends the defaults.
UserFunctions == {NoFunctions, [round |-> "ceil"], [up |-> "ceil"]}

\* The side counts of the dice: 1..MaxFace and the fate die.
SidesTexts == {Numerals[f + 1] : f \in 1..MaxFace}

\* A token stream from the <<type, text>> pairs of its tokens.
Lex(pairs) == [i \in 1..Len(pairs) |-> Token(pairs[i][1], i - 1, pairs[i][2])]

IntegerToken(n) == <<"Integer", Numerals[n + 1]>>

\* "n d s" and "n dF"
DiceInputs ==
    {Lex(<<IntegerToken(n), <<"Identifier", "d">>, <<"Integer", s>>>>) :
        n \in 0..MaxCount, s \in SidesTexts}
    \cup {Lex(<<IntegerToken(n), <<"Identifier", "dF">>>>) : n \in 0..MaxCount}

\* The token stream of the tests of parseDiceRoll: "10 d 6".
TestInput ==
    Lex(<<<<"Integer", "10">>, <<"Identifier", "d">>, <<"Integer", "6">>>>)

\* The token streams parseDiceRoll is called on.
DiceRollInputs == DiceInputs \cup {TestInput}

\* The text of an identifier that follows a count: d, dF and others.
IdentifierTexts == {"d", "dF", "D", "x"}

\* "n id s", "n id", "(n) id s" and "(n) id": an integer or a bracketed
\* expression followed by an identifier.
FactorInputs ==
    {Lex(<<IntegerToken(n), <<"Identifier", id>>>> \o rest) :
        n \in 1..2, id \in IdentifierTexts,
        rest \in {<<>>, <<<<"Integer", "2">>>>}}
    \cup {Lex(<<<<"ParenthesisOpen", "(">>, IntegerToken(n),
                <<"ParenthesisClose", ")">>, <<"Identifier", id>>>> \o rest) :
        n \in 1..2, id \in IdentifierTexts,
        rest \in {<<>>, <<<<"Integer", "2">>>>}}

\* "(a / b) d s": a fractional, zero, negative or infinite number of dice.
Fractions == {<<2, 5>>, <<5, 2>>, <<3, 2>>, <<1, 2>>, <<4, 2>>, <<1, 0>>}

FractionInputs ==
    {Lex(<<<<"ParenthesisOpen", "(">>, IntegerToken(f[1]), <<"Slash", "/">>,
           IntegerToken(f[2]), <<"ParenthesisClose", ")">>,
           <<"Identifier", "d">>, <<"Integer", "2">>>>) : f \in Fractions}
    \cup {Lex(<<<<"ParenthesisOpen", "(">>, <<"Minus", "-">>, IntegerToken(f[1]),
                <<"Slash", "/">>, IntegerToken(f[2]), <<"ParenthesisClose", ")">>,
                <<"Identifier", "d">>, <<"Integer", "2">>>>) : f \in {<<5, 2>>, <<1, 2>>}}

\* "(1 d s) d 2": the number of dice is itself rolled.
SubRollInputs ==
    {Lex(<<<<"ParenthesisOpen", "(">>, IntegerToken(1), <<"Identifier", "d">>,
           <<"Integer", s>>, <<"ParenthesisClose", ")">>,
           <<"Identifier", "d">>, <<"Integer", "2">>>>) : s \in SidesTexts}

\* "2 d s > c" and the other comparisons.
ComparisonTokens ==
    {<<"Equals", "=">>, <<"Greater", ">">>, <<"GreaterOrEqual", ">=">>,
     <<"Less", "<">>, <<"LessOrEqual", "<=">>}

ComparisonInputs ==
    {Lex(<<IntegerToken(2), <<"Identifier", "d">>, <<"Integer", s>>, op,
           IntegerToken(1)>>) : s \in SidesTexts, op \in ComparisonTokens}

\* "a op1 b op2 c" over the multiplicative operators.
MultiTokens ==
    {<<"Asterisk", "*">>, <<"Slash", "/">>, <<"Percent", "%">>,
     <<"DoubleAsterisk", "**">>}

Operands == {2, 3}

TermInputs ==
    {Lex(<<IntegerToken(a), op1, IntegerToken(b), op2, IntegerToken(c)>>) :
        a \in Operands, b \in Operands, c \in Operands,
        op1 \in MultiTokens, op2 \in MultiTokens}

\* What a provider may answer: every face of every die, and -1 and 0, which
\* are faces of the fate die only.
DrawValues == -1..MaxFace

Providers == [1..MaxCycle -> DrawValues]

\* The limits the caller configures: one below the largest count and the
\* largest side count of the inputs.
Configs == {[maxRollTimes |-> MaxCount - 1, maxDiceSides |-> MaxFace - 1]}

\* What the model keeps of a call: everything but the heap and the provider
\* position, which are the state's.
Outcome(r, k) ==
    [by |-> k, st |-> r.st, msg |-> r.msg, calls |-> r.calls,
     applied |-> r.applied, given |-> r.given, tree |-> r.tree,
     result |-> r.result]

(***************************************************************************)
(* The operations.                                                         *)
(***************************************************************************)
Init ==
    /\ heap = <<>>
    /\ input = <<>>
    /\ ast = 0
    /\ random \in Providers
    /\ rpos = 0
    /\ config \in Configs
    /\ results = <<>>
    /\ evals = <<>>
    /\ parsed = <<>>
    /\ tables = <<DefaultFunctions>>
    /\ interpreters = <<[functions |-> DefaultFunctionDefinitions]>>
    /\ constructed = <<NoFunctions>>

\* The caller builds an expression tree with the node factory.
Create(shape) ==
    /\ ast = 0
    /\ LET c == build(heap, shape)
       IN  heap' = c.heap /\ ast' = c.ref
    /\ UNCHANGED <<input, random, rpos, config, results, evals, parsed, tables,
                   interpreters, constructed>>

\* parser = new DiceParser(lexer); ast = parser.parse().  A parse that is
\* abandoned leaves the caller without a tree.
Parse(tokens) ==
    /\ ast = 0
    /\ LET p == parse(Parser(heap, tokens))
       IN  /\ p.st = "ok"
           /\ heap' = p.heap
           /\ ast' = p.ref
    /\ input' = tokens
    /\ UNCHANGED <<random, rpos, config, results, evals, parsed, tables,
                   interpreters, constructed>>

\* interpreter.interpret(ast), on one of the interpreters constructed.
Interpret ==
    /\ ast # 0
    /\ Len(results) < MaxInterprets
    /\ evals = <<>>
    /\ \E k \in 1..Len(interpreters) :
          LET r == interpret(tables[interpreters[k].functions], heap, rpos, ast)
          IN  /\ heap' = r.heap
              /\ rpos' = r.rpos
              /\ results' = Append(results, Outcome(r, k))
    /\ UNCHANGED <<input, ast, random, config, evals, parsed, tables,
                   interpreters, constructed>>

\* interpreter.evaluate(x, errors), called by the holder of the latest
\* DiceResult on a node x of its expanded tree.  The record kept of the call:
\* the node, its value attribute before the call, the expanded tree before
\* and after the call, how the call ended, what it returned and the
\* numberBetween calls it made.
Evaluate(x) ==
    /\ results # <<>>
    /\ results[Len(results)].st = "ok"
    /\ Len(evals) < MaxEvaluates
    /\ x \in Nodes(heap, results[Len(results)].result.exp)
    /\ LET e == evaluate(Context(tables[interpreters[results[Len(results)].by].functions],
                                 heap, rpos), x)
       IN  /\ heap' = e.heap
           /\ rpos' = e.rpos
           /\ evals' = Append(evals,
                  [node |-> x, exp |-> results[Len(results)].result.exp,
                   type |-> heap[x].type,
                   cached |-> getAttribute(heap, x, "value"),
                   before |-> Tree(heap, results[Len(results)].result.exp),
                   after |-> Tree(e.heap, results[Len(results)].result.exp),
                   st |-> e.st, msg |-> e.msg, val |-> e.val, calls |-> e.calls])
    /\ UNCHANGED <<input, ast, random, config, results, parsed, tables,
                   interpreters, constructed>>

\* new DiceInterpreter(functions, random)
Construct(functions) ==
    /\ Len(interpreters) < MaxInterpreters
    /\ tables' = [tables EXCEPT ![DefaultFunctionDefinitions] =
                                   ObjectAssign(@, functions)]
    /\ interpreters' = Append(interpreters,
                              [functions |-> DefaultFunctionDefinitions])
    /\ constructed' = Append(constructed, functions)
    /\ UNCHANGED <<heap, input, ast, random, rpos, config, results, evals, parsed>>

\* lexer = new MockLexer(tokens): the token stream the parsers are built
\* over.
Tokenize(tokens) ==
    /\ input = <<>>
    /\ ast = 0
    /\ input' = tokens
    /\ UNCHANGED <<heap, ast, random, rpos, config, results, evals, parsed,
                   tables, interpreters, constructed>>

\* What the model keeps of a direct call of a parser method: the method,
\* how the call ended and the tree it returned.
Returned(method, p) ==
    [method |-> method, st |-> p.st,
     tree |-> IF p.st = "ok" THEN Tree(p.heap, p.ref)
              ELSE Shape("", NoAttributes, <<>>)]

\* parser = new DiceParser(lexer), then parser.parseDiceRoll(), or
\* num = parser.parseInteger() and parser.parseDiceRoll(num).
ParseDiceRoll(preParsed) ==
    /\ input # <<>>
    /\ Len(parsed) < MaxParses
    /\ LET p == IF preParsed
                THEN Then(parseInteger(Parser(heap, input)), LAMBDA num :
                     parseDiceRoll(num, num.ref))
                ELSE parseDiceRoll(Parser(heap, input), 0)
       IN  /\ heap' = p.heap
           /\ parsed' = Append(parsed,
                  Returned(IF preParsed THEN "parseDiceRoll(num)"
                           ELSE "parseDiceRoll()", p))
    /\ UNCHANGED <<input, ast, random, rpos, config, results, evals, tables,
                   interpreters, constructed>>

\* parser = new DiceParser(lexer), then parser.parseFactor()
ParseFactor ==
    /\ input # <<>>
    /\ Len(parsed) < MaxParses
    /\ LET p == parseFactor(Parser(heap, input))
       IN  /\ heap' = p.heap
           /\ parsed' = Append(parsed, Returned("parseFactor()", p))
    /\ UNCHANGED <<input, ast, random, rpos, config, results, evals, tables,
                   interpreters, constructed>>

(***************************************************************************)
(* The specifications: one per family of expressions.                      *)
(***************************************************************************)
\* Dice rolls as the parser builds them.
NextDice ==
    \/ \E tokens \in DiceInputs \cup FractionInputs \cup SubRollInputs
                     \cup ComparisonInputs : Parse(tokens)
    \/ Interpret

SpecDice == Init /\ [][NextDice]_vars

\* Dice rolls whose nodes the holder of the result evaluates again.
NextEvaluate ==
    \/ \E tokens \in DiceInputs \cup ComparisonInputs : Parse(tokens)
    \/ Interpret
    \/ \E x \in 1..Len(heap) : Evaluate(x)

SpecEvaluate == Init /\ [][NextEvaluate]_vars

\* Arithmetic as the parser builds it.
NextTerm ==
    \/ \E tokens \in TermInputs : Parse(tokens)
    \/ Interpret

SpecTerm == Init /\ [][NextTerm]_vars

\* Modifiers over dice, built with the node factory.
NextModifiers ==
    \/ \E shape \in KeepDropShapes \cup SortShapes : Create(shape)
    \/ Interpret

SpecModifiers == Init /\ [][NextModifiers]_vars

\* The tests of parseDiceRoll: the method called on a token stream, with
\* the count parsed beforehand and without.
NextParser ==
    \/ \E tokens \in DiceRollInputs : Tokenize(tokens)
    \/ \E preParsed \in BOOLEAN : ParseDiceRoll(preParsed)

SpecParser == Init /\ [][NextParser]_vars

\* parseFactor called on a count followed by an identifier.
NextFactor ==
    \/ \E tokens \in FactorInputs : Tokenize(tokens)
    \/ ParseFactor

SpecFactor == Init /\ [][NextFactor]_vars

\* Malformed trees handed to interpret.
NextErrors ==
    \/ \E shape \in MalformedShapes : Create(shape)
    \/ Interpret

SpecErrors == Init /\ [][NextErrors]_vars

\* Interpreters constructed with and without functions of the caller's,
\* and function calls interpreted by them.
NextFunctions ==
    \/ \E functions \in UserFunctions : Construct(functions)
    \/ \E shape \in FunctionShapes : Create(shape)
    \/ Interpret

SpecFunctions == Init /\ [][NextFunctions]_vars

\* Explode and Reroll over dice.
NextLoops ==
    \/ \E shape \in ExplodeShapes \cup RerollShapes : Create(shape)
    \/ Interpret

SpecLoops == Init /\ [][NextLoops]_vars

\* Keep and Drop stacked over dice.
NextStacked ==
    \/ \E shape \in StackedShapes : Create(shape)
    \/ Interpret

SpecStacked == Init /\ [][NextStacked]_vars

\* Critical over dice.
NextCritical ==
    \/ \E shape \in CriticalShapes : Create(shape)
    \/ Interpret

SpecCritical == Init /\ [][NextCritical]_vars

\* Every expression of the families above.
Next ==
    NextDice \/ NextEvaluate \/ NextTerm \/ NextModifiers \/ NextLoops \/ NextCritical
        \/ NextStacked \/ NextParser \/ NextFactor \/ NextErrors \/ NextFunctions

Spec == Init /\ [][Next]_vars

(***************************************************************************)
(* What the properties read off a call's record.                           *)
(***************************************************************************)
RECURSIVE IntSum(_)
IntSum(seq) == IF seq = <<>> THEN 0 ELSE Head(seq) + IntSum(Tail(seq))

Min(a, b) == IF a < b THEN a ELSE b

\* A Dice node as the parser or the factory leaves it: an Integer count and
\* a DiceSides.
IsPlainDice(t) ==
    /\ t.type = "Dice"
    /\ Len(t.children) = 2
    /\ t.children[1].type = "Integer"
    /\ t.children[2].type = "DiceSides"

DiceCount(t) == t.children[1].attrs.value.n

DiceSidesOf(t) == t.children[2].attrs.value

Faces(sides) == IF sides = Str("fate") THEN -1..1 ELSE 1..sides.n

\* The values of the DiceRoll children of an expanded Dice node.
RollValues(t) == [j \in 1..Len(t.children) |-> t.children[j].attrs.value.n]

\* The numbers the provider answered with, in order.
Draws(calls) == [k \in 1..Len(calls) |-> calls[k].ret.n]

\* The provider kept to its contract: every answer lies in the range asked.
InRange(calls) ==
    \A k \in 1..Len(calls) :
        /\ IsInt(calls[k].min) /\ IsInt(calls[k].max)
        /\ calls[k].ret.n \in calls[k].min.n .. calls[k].max.n

\* How often v occurs in a sequence of integers.
Occurrences(seq, v) == Cardinality({j \in 1..Len(seq) : seq[j] = v})

\* C1: evaluating a Dice node of n >= 1 dice of s sides (or fate dice) with
\* a provider that keeps to the range asked replaces its two children by
\* exactly n DiceRoll children, each an integer in 1..s (in -1..1 for fate
\* dice), and the total is the sum of the children's values.
C1_DiceRolledWithinFacesAndSummed ==
    \A i \in 1..Len(results) :
        (/\ IsPlainDice(results[i].given)
         /\ DiceCount(results[i].given) >= 1
         /\ InRange(results[i].calls))
        => /\ results[i].st = "ok"
           /\ results[i].tree.type = "Dice"
           /\ Len(results[i].tree.children) = DiceCount(results[i].given)
           /\ \A j \in 1..Len(results[i].tree.children) :
                 /\ results[i].tree.children[j].type = "DiceRoll"
                 /\ results[i].tree.children[j].children = <<>>
                 /\ IsInt(results[i].tree.children[j].attrs.value)
                 /\ results[i].tree.children[j].attrs.value.n
                        \in Faces(DiceSidesOf(results[i].given))
           /\ results[i].result.total = Num(IntSum(RollValues(results[i].tree)))

\* C1 happens: two or more dice of a numeric side count were rolled within
\* range and came up different.
C1_Witness ==
    \E i \in 1..Len(results) :
        /\ results[i].st = "ok"
        /\ IsPlainDice(results[i].given)
        /\ DiceCount(results[i].given) >= 2
        /\ IsInt(DiceSidesOf(results[i].given))
        /\ InRange(results[i].calls)
        /\ Len(results[i].tree.children) = DiceCount(results[i].given)
        /\ RollValues(results[i].tree)[1] # RollValues(results[i].tree)[2]

\* The count operand of a Dice node as the fraction <<numerator,
\* denominator>> its evaluation yields: an integer, a quotient of integers,
\* the negation of one, or a single die (whose value is the first draw).
CountOperand(t, calls) ==
    LET c == t.children[1]
    IN  CASE c.type = "Integer" -> <<c.attrs.value.n, 1>>
          [] c.type = "Divide" ->
                <<c.children[1].attrs.value.n, c.children[2].attrs.value.n>>
          [] c.type = "Negate" ->
                <<-c.children[1].children[1].attrs.value.n,
                  c.children[1].children[2].attrs.value.n>>
          [] c.type = "Dice" -> <<calls[1].ret.n, 1>>

HasCountOperand(t, calls) ==
    /\ t.type = "Dice"
    /\ Len(t.children) = 2
    /\ t.children[2].type = "DiceSides"
    /\ \/ t.children[1].type \in {"Integer", "Divide"}
       \/ t.children[1].type = "Negate" /\ t.children[1].children[1].type = "Divide"
       \/ t.children[1].type = "Dice" /\ IsPlainDice(t.children[1]) /\ calls # <<>>
    /\ CountOperand(t, calls)[2] > 0

\* k is the integer nearest to n/d, the upper one of two equally near.
IsNearest(k, n, d) == 2 * k * d - d <= 2 * n /\ 2 * n < 2 * k * d + d

\* C2: the number of dice is the count operand's value rounded to the
\* nearest integer, ties upward, when the Dice node is evaluated (0.4 gives
\* 0 dice, 2.5 gives 3); a count that rounds to 0 leaves a Dice node with
\* zero children and total 0.
C2_CountRoundedHalfUp ==
    \A i \in 1..Len(results) :
        HasCountOperand(results[i].given, results[i].calls)
        => \A k \in 0..(MaxCount + MaxFace) :
              IsNearest(k, CountOperand(results[i].given, results[i].calls)[1],
                           CountOperand(results[i].given, results[i].calls)[2])
              => /\ results[i].st = "ok"
                 /\ results[i].tree.type = "Dice"
                 /\ Len(results[i].tree.children) = k
                 /\ \A j \in 1..k : results[i].tree.children[j].type = "DiceRoll"
                 /\ k = 0 => results[i].result.total = Num(0)

\* C2 happens: a count of 5/2 was rolled as three dice.
C2_Witness ==
    \E i \in 1..Len(results) :
        /\ results[i].st = "ok"
        /\ HasCountOperand(results[i].given, results[i].calls)
        /\ results[i].given.children[1].type = "Divide"
        /\ CountOperand(results[i].given, results[i].calls) = <<5, 2>>
        /\ Len(results[i].tree.children) = 3

\* C3: a Dice node asking for more dice than maxRollTimes, or more sides than
\* maxDiceSides, yields an error in the result's errors and is not rolled
\* that many times.
C3_LimitsEnforced ==
    \A i \in 1..Len(results) :
        (/\ IsPlainDice(results[i].given)
         /\ \/ DiceCount(results[i].given) > config.maxRollTimes
            \/ /\ IsInt(DiceSidesOf(results[i].given))
               /\ DiceSidesOf(results[i].given).n > config.maxDiceSides)
        => /\ results[i].result.errors # <<>>
           /\ Len(results[i].calls) < DiceCount(results[i].given)

\* The tokens of "a * b ** c".
TimesPower(a, b, c) ==
    Lex(<<IntegerToken(a), <<"Asterisk", "*">>, IntegerToken(b),
          <<"DoubleAsterisk", "**">>, IntegerToken(c)>>)

\* C4: exponentiation binds tighter than multiplication: a * b ** c parses
\* to Multiply(a, Exponent(b, c)) and evaluates to a * (b ** c), so
\* 2 * 3 ** 2 is 18.
C4_ExponentBindsTighter ==
    \A a \in Operands, b \in Operands, c \in Operands :
        (ast # 0 /\ input = TimesPower(a, b, c))
        => /\ Tree(heap, ast) =
                Shape("Multiply", NoAttributes,
                      <<IntegerShape(a),
                        Shape("Exponent", NoAttributes,
                              <<IntegerShape(b), IntegerShape(c)>>)>>)
           /\ \A i \in 1..Len(results) :
                 /\ results[i].st = "ok"
                 /\ results[i].result.total = Num(a * IntPow(b, c))

\* C5: interpret never mutates the tree it is given: after any number of
\* calls the tree is as it was before the first, every Dice node of it keeps
\* its count and sides children and has no value, each call rolls afresh,
\* and the expanded trees of the results share no node with the given tree
\* or with each other.
C5_InterpretLeavesTreeUntouched ==
    ast # 0 =>
        /\ \A i \in 1..Len(results) : results[i].given = Tree(heap, ast)
        /\ \A x \in Nodes(heap, ast) :
              heap[x].type = "Dice"
              => /\ getChildCount(heap, x) = 2
                 /\ getAttribute(heap, x, "value") = Undefined
        /\ \A i \in 1..Len(results) :
              (IsPlainDice(results[i].given) /\ DiceCount(results[i].given) >= 0)
              => Len(results[i].calls) = DiceCount(results[i].given)
        /\ \A i \in 1..Len(results) :
              results[i].st = "ok"
              => /\ Nodes(heap, results[i].result.exp) \cap Nodes(heap, ast) = {}
                 /\ \A j \in 1..Len(results) :
                       (j # i /\ results[j].st = "ok")
                       => Nodes(heap, results[i].result.exp)
                            \cap Nodes(heap, results[j].result.exp) = {}

\* C5 happens: the same tree was interpreted twice and the two calls rolled
\* different totals.
C5_Witness ==
    /\ Len(results) >= 2
    /\ results[1].st = "ok" /\ results[2].st = "ok"
    /\ IsPlainDice(results[1].given)
    /\ results[1].calls # <<>>
    /\ results[1].result.total # results[2].result.total
    /\ results[2].given = results[1].given

\* C6: the result is a function of the tree and of the numbers the provider
\* hands out: two calls on the same tree that are handed the same numbers in
\* the same order return the same total and the same expanded tree, and with
\* a provider that always answers c, n dice have total n * c.
C6_DeterminedByDraws ==
    /\ \A i \in 1..Len(results), j \in 1..Len(results) :
          (/\ results[i].st = "ok" /\ results[j].st = "ok"
           /\ results[i].given = results[j].given
           /\ Draws(results[i].calls) = Draws(results[j].calls))
          => /\ results[i].result.total = results[j].result.total
             /\ results[i].tree = results[j].tree
    /\ \A i \in 1..Len(results), c \in DrawValues :
          (/\ IsPlainDice(results[i].given)
           /\ DiceCount(results[i].given) >= 0
           /\ \A k \in 1..Len(results[i].calls) : results[i].calls[k].ret = Num(c))
          => /\ results[i].st = "ok"
             /\ results[i].result.total = Num(DiceCount(results[i].given) * c)

\* C6 happens: two calls on two or more dice were handed the same numbers,
\* all of them one c that is not a face of the die.
C6_Witness ==
    /\ Len(results) >= 2
    /\ results[1].st = "ok" /\ results[2].st = "ok"
    /\ IsPlainDice(results[1].given)
    /\ DiceCount(results[1].given) >= 2
    /\ Draws(results[1].calls) = Draws(results[2].calls)
    /\ \E c \in DrawValues :
          /\ c \notin Faces(DiceSidesOf(results[1].given))
          /\ c # 0
          /\ \A k \in 1..Len(results[1].calls) : results[1].calls[k].ret = Num(c)
    /\ results[1].calls # <<>>

\* Whether a die showing v meets the comparison with the target t.
Meets(type, v, t) ==
    CASE type = "Equal" -> v = t
      [] type = "Greater" -> v > t
      [] type = "GreaterOrEqual" -> v >= t
      [] type = "Less" -> v < t
      [] type = "LessOrEqual" -> v <= t

\* C7: for a comparison of a dice roll with a target, the result's successes
\* is the number of dice that meet the comparison.
C7_SuccessesCounted ==
    \A i \in 1..Len(results) :
        (/\ results[i].st = "ok"
         /\ results[i].given.type \in ComparisonTypes
         /\ IsPlainDice(results[i].given.children[1])
         /\ results[i].given.children[2].type = "Integer")
        => results[i].result.successes =
              Cardinality({j \in 1..Len(results[i].tree.children[1].children) :
                  Meets(results[i].given.type,
                        RollValues(results[i].tree.children[1])[j],
                        results[i].given.children[2].attrs.value.n)})

\* The count N of a Keep or Drop node: its second child, 1 without one.
KeepDropCount(t) ==
    IF Len(t.children) > 1 THEN t.children[2].attrs.value.n ELSE 1

\* The dice of an expanded Dice node marked drop = mark.
Marked(t, mark) ==
    {j \in 1..Len(t.children) : t.children[j].attrs.drop = Str(mark)}

\* Every die of as is at least as far along the order of the type (highest:
\* larger first; lowest: smaller first) as every die of bs.
Ahead(type, t, as, bs) ==
    \A a \in as, b \in bs :
        IF type = Str("lowest")
        THEN RollValues(t)[a] <= RollValues(t)[b]
        ELSE RollValues(t)[a] >= RollValues(t)[b]

\* C8: a Keep node of type highest (lowest) with count N over n dice marks
\* the N largest (smallest) dice drop = "no" and the other n - N drop =
\* "yes", and returns the sum of the dice marked "no"; N is 1 without a count
\* child.  Drop marks the first N in that order "yes" and sums the rest.
C8_KeepDropMarksAndSums ==
    \A i \in 1..Len(results) :
        (/\ results[i].given.type \in {"Keep", "Drop"}
         /\ IsPlainDice(results[i].given.children[1])
         /\ InRange(results[i].calls))
        => /\ results[i].st = "ok"
           /\ Len(results[i].tree.children[1].children)
                 = DiceCount(results[i].given.children[1])
           /\ Marked(results[i].tree.children[1], "no")
                 \cup Marked(results[i].tree.children[1], "yes")
                 = 1..DiceCount(results[i].given.children[1])
           /\ results[i].given.type = "Keep"
              => /\ Cardinality(Marked(results[i].tree.children[1], "no"))
                       = Min(KeepDropCount(results[i].given),
                             DiceCount(results[i].given.children[1]))
                 /\ Ahead(results[i].given.attrs.type, results[i].tree.children[1],
                          Marked(results[i].tree.children[1], "no"),
                          Marked(results[i].tree.children[1], "yes"))
           /\ results[i].given.type = "Drop"
              => /\ Cardinality(Marked(results[i].tree.children[1], "yes"))
                       = Min(KeepDropCount(results[i].given),
                             DiceCount(results[i].given.children[1]))
                 /\ Ahead(results[i].given.attrs.type, results[i].tree.children[1],
                          Marked(results[i].tree.children[1], "yes"),
                          Marked(results[i].tree.children[1], "no"))
           /\ results[i].result.total =
                 Num(IntSum([j \in 1..Len(results[i].tree.children[1].children) |->
                        IF j \in Marked(results[i].tree.children[1], "no")
                        THEN RollValues(results[i].tree.children[1])[j] ELSE 0]))

\* The Dice node under one Sort node or under two.
SortedDice(t) ==
    IF t.children[1].type = "Sort" THEN t.children[1].children[1] ELSE t.children[1]

\* C9: a Sort node with direction ascending (descending) leaves the Dice
\* node's children a permutation of the dice rolled, in non-decreasing
\* (non-increasing) order of value, returns the same total as the unsorted
\* Dice node, and sorting an already sorted Dice node in the same direction
\* leaves the order of values unchanged.
C9_SortPermutesAndOrders ==
    \A i \in 1..Len(results) :
        (/\ results[i].given.type = "Sort"
         /\ IsPlainDice(SortedDice(results[i].given))
         /\ InRange(results[i].calls))
        => /\ results[i].st = "ok"
           /\ Len(SortedDice(results[i].tree).children)
                 = DiceCount(SortedDice(results[i].given))
           /\ \A v \in DrawValues :
                 Occurrences(RollValues(SortedDice(results[i].tree)), v)
                    = Occurrences(Draws(results[i].calls), v)
           /\ \A j \in 1..(Len(SortedDice(results[i].tree).children) - 1) :
                 IF results[i].given.attrs.direction = Str("ascending")
                 THEN RollValues(SortedDice(results[i].tree))[j]
                        <= RollValues(SortedDice(results[i].tree))[j + 1]
                 ELSE RollValues(SortedDice(results[i].tree))[j]
                        >= RollValues(SortedDice(results[i].tree))[j + 1]
           /\ results[i].result.total
                 = Num(IntSum(RollValues(SortedDice(results[i].tree))))

\* C10: evaluate is memoised per node: evaluating again a node that has been
\* evaluated returns the same value, consumes no random number and changes
\* nothing in the tree, also when the value is 0.
C10_EvaluateMemoised ==
    \A k \in 1..Len(evals) :
        /\ evals[k].st = "ok"
        /\ evals[k].val = evals[k].cached
        /\ evals[k].calls = <<>>
        /\ evals[k].after = evals[k].before

\* C11: every call of interpret on a finite tree comes to an end whatever
\* the provider answers inside the ranges asked, the loops of Explode and
\* Reroll included.
C11_InterpretTerminates ==
    \A i \in 1..Len(results) :
        InRange(results[i].calls) => results[i].st # "diverge"

\* The dice of an expanded Dice node not marked drop = "yes".
NotDropped(t) ==
    {j \in 1..Len(t.children) : t.children[j].attrs.drop # Str("yes")}

\* The sum of the values of the dice of ds.
RECURSIVE SumOver(_, _)
SumOver(t, ds) ==
    IF ds = {} THEN 0
    ELSE LET j == CHOOSE d \in ds : TRUE
         IN  RollValues(t)[j] + SumOver(t, ds \ {j})

\* C12: a Critical node without a condition over n >= 1 dice of s sides
\* completes without an error, sets critical on exactly the dice showing s
\* (type success) or 1 (type failure), and returns the sum of the dice.
C12_CriticalMarksAndSums ==
    \A i \in 1..Len(results) :
        (/\ results[i].given.type = "Critical"
         /\ Len(results[i].given.children) = 1
         /\ IsPlainDice(results[i].given.children[1])
         /\ DiceCount(results[i].given.children[1]) >= 1
         /\ IsInt(DiceSidesOf(results[i].given.children[1]))
         /\ InRange(results[i].calls))
        => LET dice == results[i].tree.children[1]
               type == results[i].given.attrs.type
               mark == IF type = Str("success")
                       THEN DiceSidesOf(results[i].given.children[1]).n
                       ELSE 1
           IN  /\ results[i].st = "ok"
               /\ Len(dice.children) = DiceCount(results[i].given.children[1])
               /\ \A j \in 1..Len(dice.children) :
                     dice.children[j].attrs.critical =
                        (IF RollValues(dice)[j] = mark THEN type ELSE Undefined)
               /\ results[i].result.total =
                     Num(SumOver(dice, 1..Len(dice.children)))

\* C13: a Reroll node over n dice leaves n DiceRoll children under the Dice
\* node and only replaces their values; without once no die that is not
\* dropped ends on 1 or on a value that meets the condition; with once at
\* most one replacement is drawn for a die; the total is the sum of the
\* final values of the dice that are not dropped.
C13_RerollReplacesValuesOnly ==
    \A i \in 1..Len(results) :
        (/\ results[i].given.type = "Reroll"
         /\ IsPlainDice(results[i].given.children[1])
         /\ InRange(results[i].calls)
         /\ results[i].st = "ok")
        => LET given == results[i].given
               dice == results[i].tree.children[1]
               n == DiceCount(given.children[1])
           IN  /\ Len(dice.children) = n
               /\ \A j \in 1..Len(dice.children) :
                     /\ dice.children[j].type = "DiceRoll"
                     /\ RollValues(dice)[j] \in Faces(DiceSidesOf(given.children[1]))
               /\ given.attrs.once # Str("yes") =>
                     \A j \in NotDropped(dice) :
                        /\ RollValues(dice)[j] # 1
                        /\ Len(given.children) > 1 =>
                              ~Meets(given.children[2].type, RollValues(dice)[j],
                                     given.children[2].children[1].attrs.value.n)
               /\ given.attrs.once = Str("yes") =>
                     Len(results[i].calls) <= 2 * n
               /\ results[i].result.total = Num(SumOver(dice, NotDropped(dice)))

\* A die of an expanded Dice node explodes: its value meets the condition
\* of the Explode node, or equals the side count.
Explodes(given, v) ==
    \/ Num(v) = DiceSidesOf(given.children[1])
    \/ /\ Len(given.children) > 1
       /\ Meets(given.children[2].type, v,
                given.children[2].children[1].attrs.value.n)

\* C14: Explode over n dice appends one die for every die (rolled or
\* appended) whose value meets the condition or equals the side count, and
\* none for any other; a penetrating explosion stores for each appended die
\* the number drawn minus 1.
C14_ExplodeAppendsPerExplodingDie ==
    \A i \in 1..Len(results) :
        (/\ results[i].given.type = "Explode"
         /\ IsPlainDice(results[i].given.children[1])
         /\ InRange(results[i].calls)
         /\ results[i].st = "ok")
        => LET given == results[i].given
               dice == results[i].tree.children[1]
               n == DiceCount(given.children[1])
           IN  /\ Len(dice.children) =
                     n + Cardinality({j \in NotDropped(dice) :
                                         Explodes(given, RollValues(dice)[j])})
               /\ Len(results[i].calls) = Len(dice.children)
               /\ given.attrs.penetrate = Str("yes") =>
                     \A j \in (n + 1)..Len(dice.children) :
                        RollValues(dice)[j] = Draws(results[i].calls)[j] - 1

\* C20: the value an Explode node returns, penetrating or not, is the sum
\* of the values stored on the dice of its Dice node that are not dropped.
C20_ExplodeTotalIsSumOfStoredValues ==
    \A i \in 1..Len(results) :
        (/\ results[i].given.type = "Explode"
         /\ IsPlainDice(results[i].given.children[1])
         /\ InRange(results[i].calls)
         /\ results[i].st = "ok")
        => results[i].result.total =
              Num(SumOver(results[i].tree.children[1],
                          NotDropped(results[i].tree.children[1])))

\* The sets of N dice (all of them when fewer are left) out of from that
\* come first in the order of the type.
Ranked(type, t, from, N) ==
    {X \in SUBSET from :
        /\ Cardinality(X) = Min(N, Cardinality(from))
        /\ Ahead(type, t, X, from \ X)}

\* The sets of dice out of from that a Keep or Drop node of the type and
\* count N may mark drop = "yes".
DroppedBy(node, type, t, from, N) ==
    {IF node = "Keep" THEN from \ X ELSE X : X \in Ranked(type, t, from, N)}

\* C16: Keep and Drop rank only the dice that are not dropped already: with
\* one of them stacked over another, a die the inner one marked drop = "yes"
\* is still marked "yes" afterwards and is not among the N the outer one
\* counts.
C16_StackedKeepDropSkipDropped ==
    \A i \in 1..Len(results) :
        (/\ results[i].given.type \in {"Keep", "Drop"}
         /\ results[i].given.children[1].type \in {"Keep", "Drop"}
         /\ IsPlainDice(results[i].given.children[1].children[1])
         /\ InRange(results[i].calls)
         /\ results[i].st = "ok")
        => LET outer == results[i].given
               inner == outer.children[1]
               dice == results[i].tree.children[1].children[1]
               all == 1..Len(dice.children)
           IN  /\ Len(dice.children) = DiceCount(inner.children[1])
               /\ \E D \in DroppedBy(inner.type, inner.attrs.type, dice, all,
                                     KeepDropCount(inner)) :
                  \E D2 \in DroppedBy(outer.type, outer.attrs.type, dice, all \ D,
                                      KeepDropCount(outer)) :
                     /\ Marked(dice, "yes") = D \cup D2
                     /\ Marked(dice, "no") = all \ (D \cup D2)
                     /\ results[i].result.total =
                           Num(SumOver(dice, all \ (D \cup D2)))

\* C15: for the tokens Integer n, Identifier d, Integer s, parseDiceRoll
\* returns a Dice node with exactly two children, an Integer node of value n
\* and a DiceSides node of value s, and the tree is the same whether the
\* count was parsed beforehand and passed in or is parsed by parseDiceRoll.
C15_ParseDiceRollEitherWay ==
    \A n \in 0..10, s \in 0..10 :
        input = Lex(<<IntegerToken(n), <<"Identifier", "d">>, IntegerToken(s)>>)
        => /\ \A k \in 1..Len(parsed) :
                 /\ parsed[k].st = "ok"
                 /\ parsed[k].tree = DiceShape(IntegerShape(n), Num(s))
           /\ \A k, l \in 1..Len(parsed) : parsed[k].tree = parsed[l].tree

\* The two tests of parseDiceRoll have run on "10 d 6", one each way.
C15_Witness ==
    /\ input = TestInput
    /\ \E k, l \in 1..Len(parsed) :
          /\ parsed[k].method = "parseDiceRoll(num)"
          /\ parsed[l].method = "parseDiceRoll()"
          /\ parsed[k].st = "ok" /\ parsed[l].st = "ok"
          /\ Len(parsed[k].tree.children) = 2

\* The Dice nodes of a tree.
RECURSIVE DiceNodes(_)
DiceNodes(t) ==
    (IF t.type = "Dice" THEN {t} ELSE {})
    \cup UNION {DiceNodes(t.children[j]) : j \in 1..Len(t.children)}

\* C18: every Dice node the parser produces has exactly two children:
\* parseFactor, on an integer or a bracketed expression followed by an
\* identifier of any text, returns a Dice node whose child 0 is the operand
\* and whose child 1 is a DiceSides node.
C18_DiceNodesHaveTwoChildren ==
    \A k \in 1..Len(parsed) :
        (parsed[k].method = "parseFactor()" /\ parsed[k].st = "ok")
        => /\ \A t \in DiceNodes(parsed[k].tree) : Len(t.children) = 2
           /\ parsed[k].tree.type = "Dice"
           /\ parsed[k].tree.children[1].type = "Integer"
           /\ parsed[k].tree.children[2].type = "DiceSides"

\* The node a search down the first children from t ends on: the first
\* Dice node or childless node.
RECURSIVE Bottom(_)
Bottom(t) ==
    IF t.type = "Dice" \/ Len(t.children) = 0 THEN t ELSE Bottom(t.children[1])

\* The tree lacks nothing its evaluation asks for: operators have their
\* operands and functions are among the default ones.
RECURSIVE WellFormed(_)
WellFormed(t) ==
    /\ t.type \in BinaryTypes => Len(t.children) >= 2
    /\ t.type = "Negate" => Len(t.children) >= 1
    /\ t.type = "Function" =>
          t.attrs.name.s \in MathFunctions /\ Len(t.children) >= 1
    /\ \A j \in 1..Len(t.children) : WellFormed(t.children[j])

\* The call threw, set no value on the node it was given and drew nothing.
Aborted(r) ==
    /\ r.st = "throw"
    /\ r.tree.attrs.value = Undefined

\* A Function node of a name that no default function has, an operator
\* short of operands, a modifier over a chain that ends on a childless node
\* other than a Dice node.
UnknownFunction(t) ==
    t.type = "Function" /\ t.attrs.name.s \notin MathFunctions

ShortOperator(t) ==
    \/ t.type \in BinaryTypes /\ Len(t.children) < 2
    \/ t.type = "Negate" /\ Len(t.children) < 1

DicelessModifier(t) ==
    /\ t.type \in ModifierTypes
    /\ Len(t.children) >= 1
    /\ Bottom(t.children[1]).type # "Dice"

\* What C17 says of unknown functions and of operators short of operands:
\* the call throws, 'Unknown function' for a function and without a call of
\* any definition, and no value is set on the node.
StructuralErrorsAbort ==
    \A i \in 1..Len(results) :
        /\ UnknownFunction(results[i].given) =>
              /\ Aborted(results[i])
              /\ results[i].msg = "Unknown function: " \o results[i].given.attrs.name.s
              /\ results[i].applied = <<>>
              /\ results[i].calls = <<>>
              /\ results[i].tree = results[i].given
        /\ ShortOperator(results[i].given) => Aborted(results[i])

\* C17 as stated: unknown functions and operators short of operands abort
\* the evaluation, and a modifier whose chain of first children reaches a
\* childless node that is not a Dice node throws 'Missing dice node'.
C17_AsStated ==
    /\ StructuralErrorsAbort
    /\ \A i \in 1..Len(results) :
          DicelessModifier(results[i].given) =>
             /\ Aborted(results[i])
             /\ results[i].msg = "Missing dice node."

\* C17, amended: the modifier throws in every such case, and the error is
\* 'Missing dice node' when the nodes of the chain are well formed; a chain
\* that holds an operator short of operands or an unknown function throws
\* that node's error.
C17_StructuralErrorsAbort ==
    /\ StructuralErrorsAbort
    /\ \A i \in 1..Len(results) :
          DicelessModifier(results[i].given) =>
             /\ Aborted(results[i])
             /\ WellFormed(results[i].given.children[1]) =>
                   results[i].msg = "Missing dice node."
             /\ ~WellFormed(results[i].given.children[1]) =>
                   results[i].msg # "Missing dice node."

\* A Keep node over the negation of an integer has been interpreted and the
\* call threw 'Missing dice node' after evaluating the negation.
C17_Witness ==
    \E i \in 1..Len(results) :
        /\ results[i].given.type = "Keep"
        /\ results[i].given.children[1].type = "Negate"
        /\ Bottom(results[i].given).type = "Integer"
        /\ results[i].st = "throw"
        /\ results[i].msg = "Missing dice node."
        /\ results[i].tree.children[1].attrs.value # Undefined

\* C19: interpreters do not share function tables: an interpreter
\* constructed without functions of the caller's resolves every name to the
\* default definition and to nothing another interpreter was constructed
\* with; an entry overrides or extends the defaults for the interpreter it
\* was passed to only.
C19_FunctionTablesNotShared ==
    /\ \A j, k \in 1..Len(interpreters) :
          j # k => interpreters[j].functions # interpreters[k].functions
    /\ \A i \in 1..Len(results) :
          LET own == constructed[results[i].by]
              name == results[i].given.attrs.name.s
          IN  results[i].given.type = "Function" =>
                 CASE name \in DOMAIN own ->
                         results[i].applied =
                            <<[name |-> name, definition |-> own[name]]>>
                   [] name \in MathFunctions ->
                         results[i].applied =
                            <<[name |-> name, definition |-> DefaultFunctions[name]]>>
                   [] OTHER ->
                         results[i].st = "throw" /\ results[i].applied = <<>>

====
